---- MODULE Spec2Model ----
(***************************************************************************)
(* Model of package wrap (natefinch/wrap): With(bottom, top) and the       *)
(* composite error type `stack` with its methods Is, As, Unwrap and Error, *)
(* together with the standard library loops errors.Is, errors.As and       *)
(* errors.Unwrap that drive them.                                          *)
(*                                                                         *)
(* An error value is a record.  Its `kind` is its dynamic (concrete) Go    *)
(* type:                                                                   *)
(*   "nil"               the nil error                                     *)
(*   "errorString"       *errors.errorString, the result of errors.New;    *)
(*                       a pointer, `id` names the allocation              *)
(*   "wrapError"         *fmt.wrapError, the result of fmt.Errorf("..%w"); *)
(*                       a pointer with an Unwrap method                   *)
(*   "myError"           a comparable value type implementing error        *)
(*   "uncomparableError" an error whose dynamic type does not support ==   *)
(*                       (a slice, map or func type, or a struct of one)   *)
(*   "stack"             the composite of this package                     *)
(* Two records are equal exactly when they denote the same Go value (for a *)
(* pointer: the same allocation).                                          *)
(***************************************************************************)
EXTENDS Naturals, Sequences, FiniteSets

(***************************************************************************)
(* A Go bool result that may also be a panic is "T", "F" or "P".           *)
(*                                                                         *)
(* State: what a caller of the package holds.                              *)
(*   bottom, top  the arguments of the latest With(bottom, top) call       *)
(*   res          what that call returned                                  *)
(*   root         the error the caller works on: res, or res under a       *)
(*                fmt.Errorf wrapper                                       *)
(*   cur          where the caller's unwrap loop over root stands          *)
(*   trace        the values that loop's errors.Unwrap calls returned      *)
(*   out          the call in progress on root or cur and its result:      *)
(*                op, receiver, target, result, and the value stored in    *)
(*                the As slot                                              *)
(***************************************************************************)
VARIABLES bottom, top, res, root, cur, trace, out

vars == <<bottom, top, res, root, cur, trace, out>>

\* Largest number of error nodes (layers and composites) in one error value.
MaxNodes == 6
\* Deepest nesting of fmt.Errorf wrappers among the errors handed to With.
MaxWrapDepth == 1

----------------------------------------------------------------------------
\* Error values

Nil == [kind |-> "nil"]

ErrorString(id, msg) == [kind |-> "errorString", id |-> id, msg |-> msg]

MyError(msg) == [kind |-> "myError", msg |-> msg]

UncomparableError(msg) == [kind |-> "uncomparableError", msg |-> msg]

Stack(t, b) == [kind |-> "stack", top |-> t, bottom |-> b]

NotFound == ErrorString(1, "not found")

SomePig == MyError("some pig")

BadList == UncomparableError("bad list")

Leaves == {NotFound, SomePig, BadList}

RECURSIVE Error(_)
RECURSIVE errorsUnwrap(_)
RECURSIVE Size(_)
RECURSIVE EqErr(_, _)
RECURSIVE stackIs(_, _)
RECURSIVE isLoop(_, _, _)
RECURSIVE stackAs(_, _)
RECURSIVE asLoop(_, _)

\* A stack.Error that puts bottom's message first.
stackError_BottomFirst(s) == Error(s.bottom) \o ": " \o Error(s.top)

\* stack.Error: the two messages joined by ": ".
stackError(s) == Error(s.top) \o ": " \o Error(s.bottom)

\* err.Error() by dynamic dispatch.
Error(err) ==
    IF err.kind = "stack" THEN stackError(err) ELSE err.msg

\* fmt.Errorf(prefix + "%w", err): a new *wrapError whose message is fixed
\* when it is built.
WrapError(prefix, err) ==
    [kind |-> "wrapError", msg |-> prefix \o Error(err), inner |-> err]

\* A With that returns nil whenever bottom is nil.
With_NilBottomGivesNil(b, t) ==
    IF b = Nil THEN Nil
    ELSE IF t = Nil THEN b
    ELSE Stack(t, b)

\* A With that forgets the case of a nil top.
With_NoNilTopCase(b, t) ==
    IF b = Nil /\ t = Nil THEN Nil
    ELSE IF b = Nil THEN t
    ELSE Stack(t, b)

\* With: nil collapse, otherwise a new composite.
With(b, t) ==
    IF b = Nil /\ t = Nil THEN Nil
    ELSE IF t = Nil THEN b
    ELSE IF b = Nil THEN t
    ELSE Stack(t, b)

\* A stack.Unwrap that ends the chain when top runs out, losing bottom.
stackUnwrap_DropsBottom(s) ==
    LET err == errorsUnwrap(s.top)
    IN  IF err # Nil THEN Stack(err, s.bottom) ELSE Nil

\* A stack.Unwrap that, when top runs out, hands over to a composite of
\* bottom over what bottom wraps instead of to bottom itself.
stackUnwrap_RewrapsBottom(s) ==
    LET err == errorsUnwrap(s.top)
        rest == errorsUnwrap(s.bottom)
    IN  IF err # Nil THEN Stack(err, s.bottom)
        ELSE IF rest # Nil THEN Stack(s.bottom, rest)
        ELSE s.bottom

\* stack.Unwrap: peel one layer off top, keep bottom; hand over to bottom when
\* top has nothing left to unwrap.
stackUnwrap(s) ==
    LET err == errorsUnwrap(s.top)
    IN  IF err # Nil THEN Stack(err, s.bottom) ELSE s.bottom

\* errors.Unwrap: the result of err's Unwrap method, nil when it has none.
errorsUnwrap(err) ==
    IF err.kind = "wrapError" THEN err.inner
    ELSE IF err.kind = "stack" THEN stackUnwrap(err)
    ELSE Nil

\* reflect.TypeOf(err): the dynamic type.
TypeOf(err) == err.kind

\* Type.Comparable(): whether values of the type may be compared with ==.
\* stack is a struct of two interface fields, so its type is comparable.
Comparable(typ) == typ # "uncomparableError"

\* a == b on two error interface values: "T" equal, "F" different, "P" a
\* run-time panic.  Different dynamic types are different; two values of one
\* uncomparable type cannot be compared; structs are compared field by field
\* in source order, stopping at the first difference.
EqErr(a, b) ==
    IF TypeOf(a) # TypeOf(b) THEN "F"
    ELSE IF ~Comparable(TypeOf(a)) THEN "P"
    ELSE IF TypeOf(a) = "stack" THEN
        LET t == EqErr(a.top, b.top)
        IN  IF t # "T" THEN t ELSE EqErr(a.bottom, b.bottom)
    ELSE IF a = b THEN "T" ELSE "F"

\* err.(interface{ Is(error) bool }): among the types here only stack has Is.
HasIs(err) == TypeOf(err) = "stack"

\* err.(interface{ As(interface{}) bool }): only stack has As.
HasAs(err) == TypeOf(err) = "stack"

\* A stack.Is that goes on to test bottom when top does not match.
stackIs_AlsoBottom(s, target) ==
    IF target = Nil THEN "F"
    ELSE LET isComparable == Comparable(TypeOf(target))
             eq == IF isComparable THEN EqErr(s.top, target) ELSE "F"
             eqb == IF isComparable THEN EqErr(s.bottom, target) ELSE "F"
         IN  IF eq # "F" THEN eq
             ELSE IF HasIs(s.top) /\ stackIs(s.top, target) # "F"
                 THEN stackIs(s.top, target)
             ELSE eqb

\* A stack.Is that leaves the == test to top's own Is method.
stackIs_NoEq(s, target) ==
    IF target = Nil THEN "F"
    ELSE IF HasIs(s.top) THEN stackIs(s.top, target)
    ELSE "F"

\* stack.Is: top against target, by == when target's type is comparable, then
\* by top's own Is method.  "T" true, "F" false, "P" panic.
stackIs(s, target) ==
    IF target = Nil THEN "F"
    ELSE LET isComparable == Comparable(TypeOf(target))
             eq == IF isComparable THEN EqErr(s.top, target) ELSE "F"
         IN  IF eq # "F" THEN eq
             ELSE IF HasIs(s.top) THEN stackIs(s.top, target)
             ELSE "F"

\* The loop of errors.Is: the test of stack.Is applied to err itself, then
\* Unwrap, until nil.
isLoop(err, target, isComparable) ==
    LET eq == IF isComparable THEN EqErr(err, target) ELSE "F"
        m  == IF HasIs(err) THEN stackIs(err, target) ELSE "F"
        next == errorsUnwrap(err)
    IN  IF eq # "F" THEN eq
        ELSE IF m # "F" THEN m
        ELSE IF next = Nil THEN "F"
        ELSE isLoop(next, target, isComparable)

\* errors.Is(err, target)
errorsIs(err, target) ==
    IF target = Nil THEN (IF err = Nil THEN "T" ELSE "F")
    ELSE isLoop(err, target, Comparable(TypeOf(target)))

\* Targets of As.  kind "nil": the nil interface; "value": a non-pointer value
\* of type elem; "nilptr": a nil *elem; "ptr": a non-nil *elem.
NilTarget == [kind |-> "nil", elem |-> "none"]

NonPtr(typ) == [kind |-> "value", elem |-> typ]

NilPtr(typ) == [kind |-> "nilptr", elem |-> typ]

Ptr(typ) == [kind |-> "ptr", elem |-> typ]

\* The dynamic types of errors.
ErrorTypes == {"errorString", "wrapError", "myError", "uncomparableError", "stack"}

\* Type.Kind() == Interface: error itself, and Stringer, an interface no error
\* type here implements.
IsInterface(typ) == typ \in {"error", "Stringer"}

\* Type.Implements(errorType)
ImplementsError(typ) == typ \in ErrorTypes \cup {"error"}

\* Type.AssignableTo(targetType)
AssignableTo(typ, targetType) ==
    \/ typ = targetType
    \/ targetType = "error" /\ typ \in ErrorTypes

\* The slot *target is left as it was.
Unset == [kind |-> "unset"]

Panic == [res |-> "P", slot |-> Unset]

\* The three checks of target that stack.As and errors.As make first.
ValidTarget(target) ==
    /\ target.kind # "nil"
    /\ target.kind = "ptr"
    /\ IsInterface(target.elem) \/ ImplementsError(target.elem)

\* A stack.As that inspects top before it checks target.
stackAs_ChecksLate(s, target) ==
    IF target.kind = "nil" THEN Panic
    ELSE IF AssignableTo(TypeOf(s.top), target.elem) /\ target.kind = "ptr"
        THEN [res |-> "T", slot |-> s.top]
    ELSE IF AssignableTo(TypeOf(s.top), target.elem)
        THEN [res |-> "F", slot |-> Unset]
    ELSE IF target.kind # "ptr" THEN Panic
    ELSE IF ~IsInterface(target.elem) /\ ~ImplementsError(target.elem) THEN Panic
    ELSE IF HasAs(s.top) /\ stackAs(s.top, target).res = "T"
        THEN stackAs(s.top, target)
    ELSE [res |-> "F", slot |-> Unset]

\* A stack.As that looks at bottom where it should look at top.
stackAs_Bottom(s, target) ==
    IF target.kind = "nil" THEN Panic
    ELSE IF target.kind # "ptr" THEN Panic
    ELSE IF ~IsInterface(target.elem) /\ ~ImplementsError(target.elem) THEN Panic
    ELSE IF AssignableTo(TypeOf(s.bottom), target.elem)
        THEN [res |-> "T", slot |-> s.bottom]
    ELSE IF HasAs(s.bottom) /\ stackAs(s.bottom, target).res = "T"
        THEN stackAs(s.bottom, target)
    ELSE [res |-> "F", slot |-> Unset]

\* stack.As: panics on a bad target; else stores top when its type fits the
\* slot; else asks top's own As method.
stackAs(s, target) ==
    IF target.kind = "nil" THEN Panic
    ELSE IF target.kind # "ptr" THEN Panic
    ELSE IF ~IsInterface(target.elem) /\ ~ImplementsError(target.elem) THEN Panic
    ELSE IF AssignableTo(TypeOf(s.top), target.elem)
        THEN [res |-> "T", slot |-> s.top]
    ELSE IF HasAs(s.top) /\ stackAs(s.top, target).res = "T"
        THEN stackAs(s.top, target)
    ELSE [res |-> "F", slot |-> Unset]

\* The loop of errors.As.
asLoop(err, target) ==
    IF AssignableTo(TypeOf(err), target.elem) THEN [res |-> "T", slot |-> err]
    ELSE IF HasAs(err) /\ stackAs(err, target).res = "T" THEN stackAs(err, target)
    ELSE IF errorsUnwrap(err) = Nil THEN [res |-> "F", slot |-> Unset]
    ELSE asLoop(errorsUnwrap(err), target)

\* errors.As(err, target)
errorsAs(err, target) ==
    IF err = Nil THEN [res |-> "F", slot |-> Unset]
    ELSE IF ~ValidTarget(target) THEN Panic
    ELSE asLoop(err, target)

\* Number of nodes of an error value.
Size(err) ==
    IF err.kind = "nil" THEN 0
    ELSE IF err.kind = "wrapError" THEN 1 + Size(err.inner)
    ELSE IF err.kind = "stack" THEN 1 + Size(err.top) + Size(err.bottom)
    ELSE 1

----------------------------------------------------------------------------
\* The caller

RECURSIVE Wrapped(_)
RECURSIVE Chain(_)
RECURSIVE Parts(_)

\* Leaves under at most d fmt.Errorf wrappers.
Wrapped(d) ==
    IF d = 0 THEN Leaves
    ELSE Wrapped(d - 1) \cup {WrapError("wilbur: ", e) : e \in Wrapped(d - 1)}

\* Errors a caller can pass to With: ones it made itself, nil, and the ones
\* earlier calls gave it.
Operands == Wrapped(MaxWrapDepth) \cup {Nil, bottom, top, res, root, cur}

\* The values a caller's unwrap loop sees, starting with err itself:
\* err, errors.Unwrap(err), ... up to the last one that is not nil.
Chain(err) ==
    IF err = Nil THEN <<>> ELSE <<err>> \o Chain(errorsUnwrap(err))

\* The values in a chain.
Range(seq) == {seq[i] : i \in DOMAIN seq}

\* Every error value held inside err, err included.
Parts(err) ==
    IF err.kind = "nil" THEN {}
    ELSE IF err.kind = "wrapError" THEN {err} \cup Parts(err.inner)
    ELSE IF err.kind = "stack" THEN {err} \cup Parts(err.top) \cup Parts(err.bottom)
    ELSE {err}

\* Targets a caller tests with Is: nil, sentinels it knows, and whatever it
\* can get hold of from the error in hand.
IsTargets ==
    {Nil} \cup Leaves \cup Parts(root) \cup Range(Chain(root))
        \cup Range(Chain(top)) \cup Range(Chain(bottom))

\* Slot element types a caller asks As for; int is no error type.
ElemTypes == ErrorTypes \cup {"error", "Stringer", "int"}

\* Targets a correct caller of errors.As passes.
GoodTargets == {Ptr(typ) : typ \in ElemTypes \ {"int"}}

\* Misuses of As.
BadTargets ==
    {NilTarget, Ptr("int")}
        \cup {NonPtr(typ) : typ \in {"myError", "int"}}
        \cup {NilPtr(typ) : typ \in {"myError", "errorString", "error"}}

\* No call in progress.
NoOut == [op |-> "none"]

Init ==
    /\ bottom = Nil
    /\ top = Nil
    /\ res = Nil
    /\ root = Nil
    /\ cur = Nil
    /\ trace = <<>>
    /\ out = NoOut

\* err := With(b, t)
CallWith(b, t) ==
    /\ out = NoOut
    /\ Size(b) + Size(t) + 1 <= MaxNodes
    /\ bottom' = b
    /\ top' = t
    /\ res' = With(b, t)
    /\ root' = res'
    /\ cur' = res'
    /\ trace' = <<>>
    /\ out' = NoOut

\* err = fmt.Errorf("more context: %w", err)
Errorf ==
    /\ out = NoOut
    /\ res # Nil
    /\ root = res
    /\ Size(res) + 1 <= MaxNodes
    /\ root' = WrapError("more context: ", res)
    /\ cur' = root'
    /\ trace' = <<>>
    /\ out' = NoOut
    /\ UNCHANGED <<bottom, top, res>>

\* One turn of a caller's loop `for err != nil { err = errors.Unwrap(err) }`.
UnwrapStep ==
    /\ out = NoOut
    /\ cur # Nil
    /\ cur' = errorsUnwrap(cur)
    /\ trace' = Append(trace, cur')
    /\ out' = NoOut
    /\ UNCHANGED <<bottom, top, res, root>>

\* errors.Is(err, target) on the error a With call returned, or on that
\* error under a fmt.Errorf wrapper.
CallErrorsIs(target) ==
    /\ out = NoOut
    /\ root # Nil
    /\ cur = root
    /\ trace = <<>>
    /\ out' = [op |-> "errors.Is", recv |-> root, target |-> target,
               res |-> errorsIs(root, target), slot |-> Unset]
    /\ UNCHANGED <<bottom, top, res, root, cur, trace>>

\* errors.As(err, target), likewise.
CallErrorsAs(target) ==
    /\ out = NoOut
    /\ root # Nil
    /\ cur = root
    /\ trace = <<>>
    /\ out' = [op |-> "errors.As", recv |-> root, target |-> target,
               res |-> errorsAs(root, target).res,
               slot |-> errorsAs(root, target).slot]
    /\ UNCHANGED <<bottom, top, res, root, cur, trace>>

\* cur.Is(target), on a composite reached at any point of the unwrap loop.
CallStackIs(target) ==
    /\ out = NoOut
    /\ cur.kind = "stack"
    /\ out' = [op |-> "stack.Is", recv |-> cur, target |-> target,
               res |-> stackIs(cur, target), slot |-> Unset]
    /\ UNCHANGED <<bottom, top, res, root, cur, trace>>

\* cur.As(target)
CallStackAs(target) ==
    /\ out = NoOut
    /\ cur.kind = "stack"
    /\ out' = [op |-> "stack.As", recv |-> cur, target |-> target,
               res |-> stackAs(cur, target).res,
               slot |-> stackAs(cur, target).slot]
    /\ UNCHANGED <<bottom, top, res, root, cur, trace>>

\* cur.Error()
CallStackError ==
    /\ out = NoOut
    /\ cur.kind = "stack"
    /\ out' = [op |-> "stack.Error", recv |-> cur, target |-> Nil,
               res |-> stackError(cur), slot |-> Unset]
    /\ UNCHANGED <<bottom, top, res, root, cur, trace>>

\* The caller has used the result of the call.
Return ==
    /\ out # NoOut
    /\ out' = NoOut
    /\ UNCHANGED <<bottom, top, res, root, cur, trace>>

Next ==
    \/ \E b \in Operands, t \in Operands : CallWith(b, t)
    \/ Errorf
    \/ UnwrapStep
    \/ \E target \in IsTargets : CallErrorsIs(target)
    \/ \E target \in GoodTargets : CallErrorsAs(target)
    \/ \E target \in IsTargets : CallStackIs(target)
    \/ \E target \in GoodTargets \cup BadTargets : CallStackAs(target)
    \/ CallStackError
    \/ Return

Spec == Init /\ [][Next]_vars

----------------------------------------------------------------------------
\* Properties

RECURSIVE Layers(_)

\* The error layers a value stands for, outermost first: a composite stands
\* for its top's layers followed by its bottom's layers, any other error for
\* itself followed by the layers of what it wraps.
Layers(err) ==
    IF err.kind = "nil" THEN <<>>
    ELSE IF err.kind = "stack" THEN Layers(err.top) \o Layers(err.bottom)
    ELSE <<err>> \o Layers(errorsUnwrap(err))

RECURSIVE SupportsEq(_)

\* err can be compared with == against anything without a panic: its
\* dynamic type is comparable and, when it is a composite, so can the two
\* values it holds.  A pointer is compared by address, whatever it points to.
SupportsEq(err) ==
    IF ~Comparable(TypeOf(err)) THEN FALSE
    ELSE IF TypeOf(err) = "stack"
        THEN SupportsEq(err.top) /\ SupportsEq(err.bottom)
    ELSE TRUE

\* The last With call was given two non-nil errors and made a composite.
MadeComposite == bottom # Nil /\ top # Nil

\* C1: With collapses nil: nil for two nils, the other argument unchanged when
\* one is nil, and a composite of exactly top over bottom only when both are
\* non-nil.
C1_NilCollapse ==
    /\ (bottom = Nil /\ top = Nil) => res = Nil
    /\ (bottom # Nil /\ top = Nil) => res = bottom
    /\ (bottom = Nil /\ top # Nil) => res = top
    /\ (bottom # Nil /\ top # Nil) <=> res = Stack(top, bottom)

C1_Witness ==
    /\ bottom.kind = "wrapError"
    /\ top = Nil
    /\ res = bottom

\* C2: With returns nil whenever bottom (back) is nil, whatever top is.
C2_NilBackGivesNil == bottom = Nil => res = Nil

\* C10: every composite node in existence, whether With made it or Unwrap
\* did, at any depth inside any error held, has non-nil top and bottom.
C10_NodesNonNil ==
    \A e \in {bottom, top, res, root, cur} \cup Range(trace) :
        \A n \in Parts(e) :
            n.kind = "stack" => n.top # Nil /\ n.bottom # Nil

C10_Witness ==
    /\ trace # <<>>
    /\ cur.kind = "stack"
    /\ cur \notin Parts(res)
    /\ bottom.kind = "stack"

\* What repeated Unwrap must produce from With(b, t): composites of each
\* deeper layer of t's chain over b, then b and its own chain, then nil.
ExpectedTrace(b, t) ==
    LET f == Chain(t)
    IN  [i \in 1..(Len(f) - 1) |-> Stack(f[i + 1], b)] \o Chain(b) \o <<Nil>>

\* C5: unwrapping a composite With(bottom, top) step by step yields exactly
\* composite(f1, bottom), ..., composite(fn, bottom), bottom, bottom's own
\* chain, nil, where f0 = top, f1, ..., fn is top's chain: at every point the
\* values produced so far are a prefix of that sequence, and all of it once
\* nil is reached.
C5_UnwrapSequence ==
    (MadeComposite /\ root = res) =>
        LET exp == ExpectedTrace(bottom, top)
        IN  /\ Len(trace) <= Len(exp)
            /\ trace = SubSeq(exp, 1, Len(trace))
            /\ cur = Nil => trace = exp

C5_Witness ==
    /\ MadeComposite
    /\ root = res
    /\ top.kind = "wrapError"
    /\ bottom.kind = "wrapError"
    /\ cur = Nil
    /\ Len(trace) = 4

\* C7: unwrapping a composite With(bottom, top) reaches nil after at most
\* (layers of top's chain) + (layers of bottom's chain) steps: the count never
\* exceeds that number, and when it is reached the walk is at nil.
C7_UnwrapBound ==
    (MadeComposite /\ root = res) =>
        LET bound == Len(Chain(top)) + Len(Chain(bottom))
        IN  /\ Len(trace) <= bound
            /\ Len(trace) = bound => cur = Nil

C7_Witness ==
    /\ MadeComposite
    /\ root = res
    /\ top.kind = "stack"
    /\ cur = Nil
    /\ Len(trace) = Len(Chain(top)) + Len(Chain(bottom))

\* C6: Error() of every composite, from With or from Unwrap, is exactly top's
\* message, then ": ", then bottom's message.
C6_ErrorString ==
    out.op = "stack.Error" =>
        /\ out.res = Error(out.recv.top) \o ": " \o Error(out.recv.bottom)
        /\ out.recv = Stack(NotFound, SomePig) => out.res = "not found: some pig"

C6_Witness ==
    /\ out.op = "stack.Error"
    /\ trace # <<>>
    /\ out.recv = Stack(NotFound, WrapError("wilbur: ", SomePig))
    /\ out.res = "not found: wilbur: some pig"

\* top represents target, as stack.Is is to decide it: by == when target's
\* type is comparable, or by top's own Is method.
FrontRepresents(f, target) ==
    \/ Comparable(TypeOf(target)) /\ EqErr(f, target) = "T"
    \/ HasIs(f) /\ stackIs(f, target) = "T"

\* C9: a composite's own Is(target) is true exactly when target is non-nil
\* and top represents it; bottom plays no part (the answer is the same with
\* any other bottom), so a target that only bottom equals gets false, and so
\* does a nil target.
C9_IsLooksAtTopOnly ==
    out.op = "stack.Is" =>
        LET s == out.recv
            target == out.target
        IN  /\ out.res = "T" <=> (target # Nil /\ FrontRepresents(s.top, target))
            /\ \A b \in Leaves : stackIs(Stack(s.top, b), target) = out.res
            /\ (EqErr(s.bottom, target) = "T" /\ ~FrontRepresents(s.top, target))
                    => out.res = "F"
            /\ target = Nil => out.res = "F"

C9_Witness ==
    /\ out.op = "stack.Is"
    /\ out.target = out.recv.bottom
    /\ out.target # out.recv.top
    /\ out.recv.top.kind = "stack"
    /\ out.res = "F"

\* C8: a composite's As panics, and leaves the slot alone, whenever target
\* is nil, not a pointer, a nil pointer, or a pointer to a type that is
\* neither an interface nor an error type, whatever top is.
C8_AsPanicsOnBadTarget ==
    (out.op = "stack.As" /\ out.target \in BadTargets) =>
        /\ out.res = "P"
        /\ out.slot = Unset

C8_Witness ==
    /\ out.op = "stack.As"
    /\ out.target = NilPtr("errorString")
    /\ out.recv.top = NotFound
    /\ out.res = "P"

\* Positions of the layers whose dynamic type fits a slot of type typ.
Fits(layers, typ) ==
    {i \in DOMAIN layers : AssignableTo(TypeOf(layers[i]), typ)}

\* C4: errors.As over a composite With(bottom, top), for a slot type the
\* composite type itself does not fit: when some layer of top or of bottom
\* fits the slot, the answer is true and the slot holds the first such layer,
\* top's layers outermost first and then bottom's.
C4_AsFindsFirstLayer ==
    (/\ out.op = "errors.As"
     /\ MadeComposite
     /\ out.recv = res
     /\ ~AssignableTo("stack", out.target.elem)) =>
        LET layers == Layers(top) \o Layers(bottom)
            fits == Fits(layers, out.target.elem)
        IN  fits # {} =>
                /\ out.res = "T"
                /\ \E i \in fits :
                    /\ \A j \in fits : i <= j
                    /\ out.slot = layers[i]

C4_Witness ==
    /\ out.op = "errors.As"
    /\ MadeComposite
    /\ out.recv = res
    /\ out.target = Ptr("myError")
    /\ top.kind = "wrapError"
    /\ TypeOf(top.inner) = "errorString"
    /\ bottom.kind = "wrapError"
    /\ out.res = "T"
    /\ out.slot = bottom.inner

\* The errors the claim names: top, bottom, and everything reached from
\* either by unwrapping one step at a time.
Reachable == Range(Chain(top)) \cup Range(Chain(bottom))

\* C3 (as stated): errors.Is over a composite With(bottom, top), itself or
\* under a fmt.Errorf wrapper, is true for top, for bottom, for every error
\* reached by unwrapping from either, and for every target already found in
\* top or in bottom.
C3_IsFindsAll ==
    (/\ out.op = "errors.Is"
     /\ MadeComposite
     /\ \/ out.target \in Reachable
        \/ errorsIs(bottom, out.target) = "T"
        \/ errorsIs(top, out.target) = "T") =>
        out.res = "T"

\* C3 (amended): the same, for every such target that supports ==, that is,
\* whose type is comparable and which, when it is a composite, holds two
\* values that support == in turn.
C3_IsFindsComparable ==
    (/\ out.op = "errors.Is"
     /\ MadeComposite
     /\ SupportsEq(out.target)
     /\ \/ out.target \in Reachable
        \/ errorsIs(bottom, out.target) = "T"
        \/ errorsIs(top, out.target) = "T") =>
        out.res = "T"

C3_Witness ==
    /\ out.op = "errors.Is"
    /\ MadeComposite
    /\ root # res
    /\ out.recv = root
    /\ bottom.kind = "stack"
    /\ out.target = bottom.bottom
    /\ out.target \notin {top, bottom.top}
    /\ SupportsEq(out.target)
    /\ out.res = "T"

\* C3 (amended) also covers a pointer target that wraps an uncomparable
\* error: the pointer itself supports ==, and errors.Is finds it.
C3_WitnessWrapsUncomparable ==
    /\ out.op = "errors.Is"
    /\ MadeComposite
    /\ out.target = WrapError("wilbur: ", BadList)
    /\ out.target = bottom
    /\ out.res = "T"

====
